---------------------------- MODULE Spec2Model ----------------------------
(***************************************************************************)
(* Double-entry ledger of the Crania accounting application (src/app.py,   *)
(* src/models.py): the persisted tables, the write routes and the report   *)
(* functions.                                                              *)
(*                                                                         *)
(* Money is counted in cents (0.01 = 1), so the Float columns hold         *)
(* integers and sums are exact.  A DateTime is a tick count; a calendar    *)
(* day holds TicksPerDay ticks and the "YYYY-MM-DD" prefix of a DateTime   *)
(* is its day number (zero-padded ISO strings order as their days do).     *)
(* None, a missing JSON field and the id 0 are all written 0.              *)
(***************************************************************************)
EXTENDS Integers, Sequences, FiniteSets, TLC

VARIABLES accounts, transactions, journal_entries, last

vars == <<accounts, transactions, journal_entries, last>>

----------------------------------------------------------------------------
(* Bounds of the model *)

\* Rows the transactions and journal_entries tables hold together.
MaxRows == 2
\* Rows of the accounts table.
MaxAccounts == 6

None == 0

\* Calendar days, and the times of day told apart within one day.
Days == {1, 2}
TimesOfDay == {0, 1}
TicksPerDay == Cardinality(TimesOfDay)
DateTime(day, time) == day * TicksPerDay + time
Times == {DateTime(d, t) : d \in Days, t \in TimesOfDay}

\* An optional "YYYY-MM-DD" request argument: a day, or None.
DateFilters == Days \cup {None}

----------------------------------------------------------------------------
(* Seed data written by init_db *)

AccountTypes == {"asset", "liability", "equity", "income", "expense"}

\* The first account of each type of DEFAULT_ACCOUNTS, and the tax account.
\* An Account.code is the sequence of its digits: "1000" is <<1, 0, 0, 0>>.
DEFAULT_ACCOUNTS ==
    << [code |-> <<1, 0, 0, 0>>, type |-> "asset"],
       [code |-> <<2, 3, 0, 0>>, type |-> "liability"],
       [code |-> <<3, 0, 0, 0>>, type |-> "equity"],
       [code |-> <<4, 0, 0, 0>>, type |-> "income"],
       [code |-> <<5, 0, 0, 0>>, type |-> "expense"] >>

CashCode == <<1, 0, 0, 0>>
TaxCode == <<2, 3, 0, 0>>

\* TaxRate.rate by id: No Tax, HST (13%), GST (5%), PST (7%).
TaxRates == <<0, 13, 5, 7>>

Tolerance == 1
TaxThreshold == 1

----------------------------------------------------------------------------
(* Helpers over integers and tables *)

Abs(x) == IF x < 0 THEN -x ELSE x

Min(S) == CHOOSE x \in S : \A y \in S : x <= y

Max(S) == CHOOSE x \in S : \A y \in S : y <= x

\* Primary key SQLite gives the next inserted row: the largest rowid plus one.
NextId(table) == IF DOMAIN table = {} THEN 1 ELSE Max(DOMAIN table) + 1

\* The ids of a table in increasing order.
RECURSIVE IdsInOrder(_)
IdsInOrder(S) ==
    IF S = {} THEN <<>> ELSE <<Min(S)>> \o IdsInOrder(S \ {Min(S)})

RECURSIVE SumSeq(_)
SumSeq(s) == IF s = <<>> THEN 0 ELSE Head(s) + SumSeq(Tail(s))

RECURSIVE Flatten(_)
Flatten(ss) == IF ss = <<>> THEN <<>> ELSE Head(ss) \o Flatten(Tail(ss))

\* Account.query.filter(cond).first(): the matching row of lowest id, or None.
FirstAccount(accs, Cond(_)) ==
    LET hits == {a \in DOMAIN accs : Cond(accs[a])}
    IN  IF hits = {} THEN None ELSE Min(hits)

AccountByCode(accs, code) == FirstAccount(accs, LAMBDA a : a.code = code)

AccountByType(accs, type) == FirstAccount(accs, LAMBDA a : a.type = type)

\* The account of code "1000", else the first asset account.
CashAccount(accs) ==
    IF AccountByCode(accs, CashCode) # None
    THEN AccountByCode(accs, CashCode)
    ELSE AccountByType(accs, "asset")

----------------------------------------------------------------------------
(* Ledger Line Source *)

\* _to_date_str: the YYYY-MM-DD prefix of a DateTime.
_to_date_str(dt) == dt \div TicksPerDay

\* Faulty variant: the lower bound is exclusive.
InWindow_Exclusive(ds, df, dt, ao) ==
    /\ ~(df # None /\ ds <= df)
    /\ ~(dt # None /\ ds > dt)
    /\ ~(ao # None /\ ds > ao)

\* The three window tests shared by both loops of _collect_all_lines.
InWindow(ds, df, dt, ao) ==
    /\ ~(df # None /\ ds < df)
    /\ ~(dt # None /\ ds > dt)
    /\ ~(ao # None /\ ds > ao)

IsVoid(row) == row.status = "void"

\* Faulty variant: the credit side of a transaction is not emitted.
TransactionLines_DebitOnly(t) ==
    IF t.debit_account_id # None
    THEN <<[date |-> _to_date_str(t.date), account_id |-> t.debit_account_id,
            debit |-> t.amount, credit |-> 0]>>
    ELSE <<>>

TransactionLines(t) ==
    LET ds == _to_date_str(t.date)
    IN  (IF t.debit_account_id # None
         THEN <<[date |-> ds, account_id |-> t.debit_account_id,
                 debit |-> t.amount, credit |-> 0]>>
         ELSE <<>>)
        \o
        (IF t.credit_account_id # None
         THEN <<[date |-> ds, account_id |-> t.credit_account_id,
                 debit |-> 0, credit |-> t.amount]>>
         ELSE <<>>)

JournalLineRows(je) ==
    LET ds == _to_date_str(je.date)
        keep == SelectSeq(je.lines, LAMBDA jl : jl.debit # 0 \/ jl.credit # 0)
    IN  [i \in 1..Len(keep) |->
            [date |-> ds, account_id |-> keep[i].account_id,
             debit |-> keep[i].debit, credit |-> keep[i].credit]]

\* order_by(date, id): the ids S of a table by date, then id.
RECURSIVE EntriesByDate(_, _)
EntriesByDate(jes, S) ==
    IF S = {} THEN <<>>
    ELSE LET first == CHOOSE e \in S : \A f \in S :
                          \/ jes[e].date < jes[f].date
                          \/ (jes[e].date = jes[f].date /\ e <= f)
         IN  <<first>> \o EntriesByDate(jes, S \ {first})

\* Faulty variant: the journal loop does not skip the voided entries.
_collect_all_lines_KeepVoid(txns, jes, df, dt, ao) ==
    LET tids == IdsInOrder({t \in DOMAIN txns :
                    ~IsVoid(txns[t]) /\ InWindow(_to_date_str(txns[t].date), df, dt, ao)})
        jids == EntriesByDate(jes, {e \in DOMAIN jes :
                    InWindow(_to_date_str(jes[e].date), df, dt, ao)})
    IN  Flatten([i \in 1..Len(tids) |-> TransactionLines(txns[tids[i]])])
        \o Flatten([i \in 1..Len(jids) |-> JournalLineRows(jes[jids[i]])])

_collect_all_lines(txns, jes, df, dt, ao) ==
    LET tids == IdsInOrder({t \in DOMAIN txns :
                    ~IsVoid(txns[t]) /\ InWindow(_to_date_str(txns[t].date), df, dt, ao)})
        jids == EntriesByDate(jes, {e \in DOMAIN jes :
                    ~IsVoid(jes[e]) /\ InWindow(_to_date_str(jes[e].date), df, dt, ao)})
    IN  Flatten([i \in 1..Len(tids) |-> TransactionLines(txns[tids[i]])])
        \o Flatten([i \in 1..Len(jids) |-> JournalLineRows(jes[jids[i]])])

----------------------------------------------------------------------------
(* Balance Aggregator *)

\* acc.type if acc else "asset"
AccountTypeOf(accs, aid) ==
    IF aid \in DOMAIN accs THEN accs[aid].type ELSE "asset"

\* Faulty variant: expense accounts are taken as credit-normal.
IsDebitNormal_AssetOnly(type) == type = "asset"

IsDebitNormal(type) == type \in {"asset", "expense"}

\* account_ids = None: no filter (written as the set {None}).
NoFilter == {None}

\* Faulty variant: the account filter is not applied.
Selected_All(lines, account_ids) == lines

Selected(lines, account_ids) ==
    SelectSeq(lines, LAMBDA l : account_ids = NoFilter \/ l.account_id \in account_ids)

TotalDebit(lines, aid) ==
    SumSeq([i \in 1..Len(lines) |->
              IF lines[i].account_id = aid THEN lines[i].debit ELSE 0])

TotalCredit(lines, aid) ==
    SumSeq([i \in 1..Len(lines) |->
              IF lines[i].account_id = aid THEN lines[i].credit ELSE 0])

\* Faulty variant: accounts whose balance comes out as zero are left out.
_account_balances_NonZero(accs, lines, account_ids) ==
    LET sel == Selected(lines, account_ids)
        aids == {sel[i].account_id : i \in 1..Len(sel)}
        net(aid) == TotalDebit(sel, aid) - TotalCredit(sel, aid)
    IN  [aid \in {a \in aids : net(a) # 0} |->
            IF IsDebitNormal(AccountTypeOf(accs, aid))
            THEN net(aid) ELSE 0 - net(aid)]

_account_balances(accs, lines, account_ids) ==
    LET sel == Selected(lines, account_ids)
        aids == {sel[i].account_id : i \in 1..Len(sel)}
    IN  [aid \in aids |->
            IF IsDebitNormal(AccountTypeOf(accs, aid))
            THEN TotalDebit(sel, aid) - TotalCredit(sel, aid)
            ELSE TotalCredit(sel, aid) - TotalDebit(sel, aid)]

----------------------------------------------------------------------------
(* Responses: what the last request was and what the route answered *)

Response(op, code, error, id) ==
    [op |-> op, code |-> code, error |-> error, id |-> id,
     description |-> "", lines |-> <<>>, tax_rate_id |-> None,
     checked |-> <<>>]

\* checked: the lines total_d and total_c were summed over, <<>> when the
\* route returned before summing.
JournalResponse(code, error, id, description, raw_lines, tax_rate_id, checked) ==
    [op |-> "journal", code |-> code, error |-> error, id |-> id,
     description |-> description, lines |-> raw_lines,
     tax_rate_id |-> tax_rate_id, checked |-> checked]

RowCount == Len(transactions) + Len(journal_entries)

----------------------------------------------------------------------------
(* POST /add *)

\* Faulty variant: the two accounts are stored on each other's side.
Transaction_Swapped(date, amount, type, debit_account_id, credit_account_id) ==
    [date |-> date, amount |-> amount, type |-> type,
     debit_account_id |-> credit_account_id,
     credit_account_id |-> debit_account_id,
     status |-> "posted", voided_at |-> None, voided_reason |-> ""]

Transaction(date, amount, type, debit_account_id, credit_account_id) ==
    [date |-> date, amount |-> amount, type |-> type,
     debit_account_id |-> debit_account_id,
     credit_account_id |-> credit_account_id,
     status |-> "posted", voided_at |-> None, voided_reason |-> ""]

\* amount_ok: float(data.get("amount", 0)) did not raise.
add_transaction(amount_ok, amount, type, now) ==
    LET txn_type == IF type \in {"income", "expense"} THEN type ELSE "expense"
        cash == CashAccount(accounts)
        income == AccountByType(accounts, "income")
        expenses == AccountByType(accounts, "expense")
    IN  IF ~amount_ok
        THEN /\ last' = Response("add", 400, "Invalid amount", None)
             /\ UNCHANGED <<accounts, transactions, journal_entries>>
        ELSE IF cash = None \/ income = None \/ expenses = None
        THEN /\ last' = Response("add", 500, "Default accounts missing", None)
             /\ UNCHANGED <<accounts, transactions, journal_entries>>
        ELSE /\ RowCount < MaxRows
             /\ transactions' = Append(transactions,
                    IF txn_type = "income"
                    THEN Transaction(now, amount, txn_type, cash, income)
                    ELSE Transaction(now, amount, txn_type, expenses, cash))
             /\ last' = Response("add", 200, "", NextId(transactions))
             /\ UNCHANGED <<accounts, journal_entries>>

----------------------------------------------------------------------------
(* POST /api/transactions/journal *)

Line(account_id, debit, credit) ==
    [account_id |-> account_id, debit |-> debit, credit |-> credit]

\* Faulty variant: the lines without an account reference are kept.
ParseLines_KeepAll(raw_lines) == raw_lines

\* Lines without an account reference are dropped before anything is checked.
ParseLines(raw_lines) == SelectSeq(raw_lines, LAMBDA l : l.account_id # None)

SumDebit(lines) == SumSeq([i \in 1..Len(lines) |-> lines[i].debit])

SumCredit(lines) == SumSeq([i \in 1..Len(lines) |-> lines[i].credit])

\* Faulty variant: the tolerance is ten cents.
OutOfBalance_Loose(lines) ==
    {Abs(SumDebit(lines) - SumCredit(lines)) > 10 * Tolerance}

\* abs(total_d - total_c) > 0.01, the answers the float comparison can give.
\* The float difference of two totals one cent apart lies just above or just
\* below the float 0.01 (abs(1.0 - 0.99) > 0.01, abs(0.06 - 0.05) < 0.01), so
\* at exactly one cent the test can go either way.
OutOfBalance(lines) ==
    LET diff == Abs(SumDebit(lines) - SumCredit(lines))
    IN  IF diff > Tolerance THEN {TRUE}
        ELSE IF diff < Tolerance THEN {FALSE}
        ELSE {TRUE, FALSE}

\* The credits of the lines on income accounts.
IncomeTaxable(accs, lines) ==
    SumSeq([i \in 1..Len(lines) |->
        IF lines[i].account_id \in DOMAIN accs
           /\ accs[lines[i].account_id].type = "income"
        THEN lines[i].credit ELSE 0])

\* The debits of the lines on expense accounts (the elif: not income).
ExpenseTaxable(accs, lines) ==
    SumSeq([i \in 1..Len(lines) |->
        IF lines[i].account_id \in DOMAIN accs
           /\ accs[lines[i].account_id].type = "expense"
        THEN lines[i].debit ELSE 0])

\* round(taxable * rate, 2) with rate = percent / 100, in cents: the nearest
\* integer to taxable * percent / 100.  Exactly halfway the float product lies
\* above or below the tie as its binary representation falls, so both
\* neighbours can result.
RoundTax(taxable, percent) ==
    LET n == taxable * percent
        lo == n \div 100
        rem == n % 100
    IN  IF rem < 50 THEN {lo}
        ELSE IF rem > 50 THEN {lo + 1}
        ELSE {lo, lo + 1}

\* Faulty variant: the offsetting cash line of the income tax is not appended.
IncomeTaxLines_NoCash(tax_account, cash_account, inc_tax) ==
    IF inc_tax > TaxThreshold
    THEN <<Line(tax_account, 0, inc_tax)>>
    ELSE <<>>

IncomeTaxLines(tax_account, cash_account, inc_tax) ==
    IF inc_tax > TaxThreshold
    THEN <<Line(tax_account, 0, inc_tax), Line(cash_account, inc_tax, 0)>>
    ELSE <<>>

\* Faulty variant: the expense tax is booked with the sides of the income tax.
ExpenseTaxLines_Swapped(tax_account, cash_account, exp_tax) ==
    IF exp_tax > TaxThreshold
    THEN <<Line(tax_account, 0, exp_tax), Line(cash_account, exp_tax, 0)>>
    ELSE <<>>

ExpenseTaxLines(tax_account, cash_account, exp_tax) ==
    IF exp_tax > TaxThreshold
    THEN <<Line(tax_account, exp_tax, 0), Line(cash_account, 0, exp_tax)>>
    ELSE <<>>

\* Whether the surcharge block runs: a rate id, both accounts and the rate row.
\* Faulty variant: the surcharge block runs whenever a known rate is named.
TaxApplies_RateOnly(accs, tax_rate_id) ==
    /\ tax_rate_id # None
    /\ tax_rate_id \in DOMAIN TaxRates

TaxApplies(accs, tax_rate_id) ==
    /\ tax_rate_id # None
    /\ AccountByCode(accs, TaxCode) # None
    /\ CashAccount(accs) # None
    /\ tax_rate_id \in DOMAIN TaxRates

\* The line sets the surcharge block can leave behind.
WithTax(accs, lines, tax_rate_id) ==
    IF ~TaxApplies(accs, tax_rate_id) THEN {lines}
    ELSE LET tax_account == AccountByCode(accs, TaxCode)
             cash_account == CashAccount(accs)
             percent == TaxRates[tax_rate_id]
         IN  { lines \o IncomeTaxLines(tax_account, cash_account, inc_tax)
                     \o ExpenseTaxLines(tax_account, cash_account, exp_tax) :
                 inc_tax \in RoundTax(IncomeTaxable(accs, lines), percent),
                 exp_tax \in RoundTax(ExpenseTaxable(accs, lines), percent) }

\* Faulty variant: the totals are summed once the tax block has run.
CheckedLines_AfterTax(accs, lines, tax_rate_id) ==
    CHOOSE all_lines \in WithTax(accs, lines, tax_rate_id) : TRUE

\* The lines total_d and total_c are summed over: the lines as parsed, the
\* tax block running only after the balance check.
CheckedLines(accs, lines, tax_rate_id) == lines

\* Faulty variant: the entry is committed before its last line is added.
JournalEntry_Partial(date, lines) ==
    [date |-> date, status |-> "posted", voided_at |-> None,
     voided_reason |-> "", lines |-> SubSeq(lines, 1, Len(lines) - 1)]

JournalEntry(date, lines) ==
    [date |-> date, status |-> "posted", voided_at |-> None,
     voided_reason |-> "", lines |-> lines]

\* date_str = None, or one that does not parse: utcnow().
api_journal_post(description, date_str, tax_rate_id, raw_lines, now) ==
    LET lines == ParseLines(raw_lines)
        txn_date == IF date_str = None THEN now ELSE date_str
        checked == CheckedLines(accounts, lines, tax_rate_id)
    IN  IF description = ""
        THEN /\ last' = JournalResponse(400, "Description required", None,
                                        description, raw_lines, tax_rate_id, <<>>)
             /\ UNCHANGED <<accounts, transactions, journal_entries>>
        ELSE IF Len(lines) < 2
        THEN /\ last' = JournalResponse(400, "At least 2 lines required", None,
                                        description, raw_lines, tax_rate_id, <<>>)
             /\ UNCHANGED <<accounts, transactions, journal_entries>>
        ELSE \E out_of_balance \in OutOfBalance(checked) :
            IF out_of_balance
            THEN /\ last' = JournalResponse(400, "Debits must equal credits", None,
                                            description, raw_lines, tax_rate_id,
                                            checked)
                 /\ UNCHANGED <<accounts, transactions, journal_entries>>
            ELSE /\ RowCount < MaxRows
                 /\ \E all_lines \in WithTax(accounts, lines, tax_rate_id) :
                        journal_entries' =
                            Append(journal_entries, JournalEntry(txn_date, all_lines))
                 /\ last' = JournalResponse(200, "", NextId(journal_entries),
                                            description, raw_lines, tax_rate_id,
                                            checked)
                 /\ UNCHANGED <<accounts, transactions>>

----------------------------------------------------------------------------
(* POST /api/transactions/import *)

ImportRow(account_id, debit, credit, date_str) ==
    [account_id |-> account_id, debit |-> debit, credit |-> credit,
     date_str |-> date_str]

\* The asset account of lowest id, else the account of lowest id.
ImportOther(accs) ==
    IF AccountByType(accs, "asset") # None
    THEN AccountByType(accs, "asset")
    ELSE FirstAccount(accs, LAMBDA a : TRUE)

\* The rows that become a journal entry: the others hit a continue.
ImportKeeps(accs, r) ==
    /\ r.account_id # None
    /\ ~(r.debit = 0 /\ r.credit = 0)
    /\ ImportOther(accs) # None
    /\ ~(Abs((r.debit + r.credit) - (r.credit + r.debit)) > Tolerance)

\* Faulty variant: the offsetting line of an imported row is not written.
ImportEntry_OneSided(accs, r, now) ==
    JournalEntry(IF r.date_str = None THEN now ELSE r.date_str,
                 <<Line(r.account_id, r.debit, r.credit),
                   Line(ImportOther(accs), 0, 0)>>)

ImportEntry(accs, r, now) ==
    JournalEntry(IF r.date_str = None THEN now ELSE r.date_str,
                 <<Line(r.account_id, r.debit, r.credit),
                   Line(ImportOther(accs), r.credit, r.debit)>>)

api_import_transactions(rows, now) ==
    LET kept == SelectSeq(rows, LAMBDA r : ImportKeeps(accounts, r))
    IN  /\ RowCount + Len(kept) <= MaxRows
        /\ journal_entries' = journal_entries \o
               [i \in 1..Len(kept) |-> ImportEntry(accounts, kept[i], now)]
        /\ last' = Response("import", 200, "", Len(kept))
        /\ UNCHANGED <<accounts, transactions>>

----------------------------------------------------------------------------
(* POST /api/transactions/<txn_type>-<txn_id>/void *)

\* Faulty variant: a void request on a void row posts it again.
Voided_Toggle(row, now, reason) ==
    [row EXCEPT !.status = IF row.status = "void" THEN "posted" ELSE "void",
                !.voided_at = now, !.voided_reason = reason]

\* Faulty variant: the stamp is written and the status is left as it was.
Voided_StampOnly(row, now, reason) ==
    [row EXCEPT !.voided_at = now, !.voided_reason = reason]

\* Faulty variant: the row's date is moved to the time of the void.
Voided_Redated(row, now, reason) ==
    [row EXCEPT !.status = "void", !.voided_at = now, !.voided_reason = reason,
                !.date = now]

Voided(row, now, reason) ==
    [row EXCEPT !.status = "void", !.voided_at = now, !.voided_reason = reason]

api_void_transaction(txn_type, txn_id, reason, now) ==
    IF txn_type = "T"
    THEN IF txn_id \in DOMAIN transactions
         THEN /\ transactions' =
                    [transactions EXCEPT ![txn_id] = Voided(@, now, reason)]
              /\ last' = Response("void", 200, "", txn_id)
              /\ UNCHANGED <<accounts, journal_entries>>
         ELSE /\ last' = Response("void", 404, "Not Found", None)
              /\ UNCHANGED <<accounts, transactions, journal_entries>>
    ELSE IF txn_type = "JE"
    THEN IF txn_id \in DOMAIN journal_entries
         THEN /\ journal_entries' =
                    [journal_entries EXCEPT ![txn_id] = Voided(@, now, reason)]
              /\ last' = Response("void", 200, "", txn_id)
              /\ UNCHANGED <<accounts, transactions>>
         ELSE /\ last' = Response("void", 404, "Not Found", None)
              /\ UNCHANGED <<accounts, transactions, journal_entries>>
    ELSE /\ last' = Response("void", 400, "Invalid type", None)
         /\ UNCHANGED <<accounts, transactions, journal_entries>>

----------------------------------------------------------------------------
(* GET /clear *)

\* Faulty variant: /clear empties the journal entries too.
clear_db_AllTables ==
    /\ transactions' = <<>>
    /\ journal_entries' = <<>>
    /\ last' = Response("clear", 302, "", None)
    /\ UNCHANGED accounts

clear_db ==
    /\ transactions' = <<>>
    /\ last' = Response("clear", 302, "", None)
    /\ UNCHANGED <<accounts, journal_entries>>

----------------------------------------------------------------------------
(* POST /api/accounts and PUT /api/accounts/<aid> *)

api_create_account(name, type, code) ==
    IF name = ""
    THEN /\ last' = Response("create_account", 400, "Name required", None)
         /\ UNCHANGED <<accounts, transactions, journal_entries>>
    ELSE /\ Len(accounts) < MaxAccounts
         /\ accounts' = Append(accounts, [code |-> code, type |-> type])
         /\ last' = Response("create_account", 200, "", NextId(accounts))
         /\ UNCHANGED <<transactions, journal_entries>>

\* data: the fields present in the request body, a function from their names.
api_update_account(aid, data) ==
    IF aid \notin DOMAIN accounts
    THEN /\ last' = Response("update_account", 404, "Not Found", None)
         /\ UNCHANGED <<accounts, transactions, journal_entries>>
    ELSE /\ accounts' = [accounts EXCEPT ![aid] =
               [type |-> IF "type" \in DOMAIN data THEN data["type"] ELSE @.type,
                code |-> IF "code" \in DOMAIN data THEN data["code"] ELSE @.code]]
         /\ last' = Response("update_account", 200, "", aid)
         /\ UNCHANGED <<transactions, journal_entries>>

----------------------------------------------------------------------------
(* Report Generators *)

\* Python's order on strings, for codes: character by character, a proper
\* prefix first.
RECURSIVE CodeLess(_, _)
CodeLess(a, b) ==
    IF b = <<>> THEN FALSE
    ELSE IF a = <<>> THEN TRUE
    ELSE IF Head(a) # Head(b) THEN Head(a) < Head(b)
    ELSE CodeLess(Tail(a), Tail(b))

\* The ids of S sorted by Before, a strict total order on S.
Sorted(S, Before(_, _)) ==
    LET RECURSIVE from(_)
        from(T) ==
            IF T = {} THEN <<>>
            ELSE LET first == CHOOSE x \in T : \A y \in T \ {x} : Before(x, y)
                 IN  <<first>> \o from(T \ {first})
    IN  from(S)

\* getattr(acc, "code", "") or "9999"
CodeOr9999(code) == IF code = <<>> THEN <<9, 9, 9, 9>> ELSE code

\* Faulty variant: the total adds the sizes of the balances, so a negative
\* balance raises the total.
SumBalance_Abs(rows) == SumSeq([i \in 1..Len(rows) |-> Abs(rows[i].balance)])

SumBalance(rows) == SumSeq([i \in 1..Len(rows) |-> rows[i].balance])

_balance_sheet_data(accs, txns, jes, date_from, date_to) ==
    LET lines == _collect_all_lines(txns, jes, date_from, date_to, None)
        balances == _account_balances(accs, lines, NoFilter)
        shown(type) == {aid \in DOMAIN balances :
                            /\ aid \in DOMAIN accs
                            /\ ~(Abs(balances[aid]) < 1)
                            /\ accs[aid].type = type}
        before(a, b) ==
            \/ CodeLess(CodeOr9999(accs[a].code), CodeOr9999(accs[b].code))
            \/ (CodeOr9999(accs[a].code) = CodeOr9999(accs[b].code) /\ a < b)
        rows(type) ==
            LET ids == Sorted(shown(type), before)
            IN  [i \in 1..Len(ids) |->
                    [id |-> ids[i], code |-> accs[ids[i]].code,
                     balance |-> balances[ids[i]]]]
    IN  [assets |-> rows("asset"),
         total_assets |-> SumBalance(rows("asset")),
         liabilities |-> rows("liability"),
         total_liabilities |-> SumBalance(rows("liability")),
         equity |-> rows("equity"),
         total_equity |-> SumBalance(rows("equity"))]

\* Faulty variant: the totals are taken over every income and expense
\* account with activity, the ones left out of the rows included.
_income_statement_data_TotalsOfAll(accs, txns, jes, date_from, date_to) ==
    LET lines == _collect_all_lines(txns, jes, date_from, date_to, None)
        balances == _account_balances(accs, lines, NoFilter)
        all(type) == {aid \in DOMAIN balances :
                            aid \in DOMAIN accs /\ accs[aid].type = type}
        kept(type) == {aid \in all(type) : balances[aid] > 0}
        before(a, b) ==
            \/ CodeLess(accs[a].code, accs[b].code)
            \/ (accs[a].code = accs[b].code /\ a < b)
        rows(ids) ==
            LET sorted == Sorted(ids, before)
            IN  [i \in 1..Len(sorted) |->
                    [code |-> accs[sorted[i]].code,
                     balance |-> balances[sorted[i]]]]
    IN  [revenue_accounts |-> rows(kept("income")),
         expense_accounts |-> rows(kept("expense")),
         total_revenue |-> SumBalance(rows(all("income"))),
         total_expenses |-> SumBalance(rows(all("expense"))),
         net_income |-> SumBalance(rows(all("income")))
                            - SumBalance(rows(all("expense")))]

_income_statement_data(accs, txns, jes, date_from, date_to) ==
    LET lines == _collect_all_lines(txns, jes, date_from, date_to, None)
        balances == _account_balances(accs, lines, NoFilter)
        kept(type) == {aid \in DOMAIN balances :
                            /\ aid \in DOMAIN accs
                            /\ accs[aid].type = type
                            /\ balances[aid] > 0}
        before(a, b) ==
            \/ CodeLess(accs[a].code, accs[b].code)
            \/ (accs[a].code = accs[b].code /\ a < b)
        rows(type) ==
            LET ids == Sorted(kept(type), before)
            IN  [i \in 1..Len(ids) |->
                    [code |-> accs[ids[i]].code, balance |-> balances[ids[i]]]]
    IN  [revenue_accounts |-> rows("income"),
         expense_accounts |-> rows("expense"),
         total_revenue |-> SumBalance(rows("income")),
         total_expenses |-> SumBalance(rows("expense")),
         net_income |-> SumBalance(rows("income")) - SumBalance(rows("expense"))]

\* A ledger row before the running balance.  The label "TXN-%06d" or
\* "JE-%06d" is the pair <<kind, id>>; "JE-..." sorts before "TXN-...".
LedgerRow(date, kind, id, debit, credit) ==
    [date |-> date, txn_id |-> <<kind, id>>, debit |-> debit, credit |-> credit]

LabelLess(a, b) ==
    \/ (a[1] = "JE" /\ b[1] = "TXN")
    \/ (a[1] = b[1] /\ a[2] < b[2])

\* The date test of both loops of _general_ledger_data.
\* Faulty variant: the upper bound of the range is not applied.
InLedgerRange_NoUpperBound(date, date_from, date_to) ==
    ~(date_from # None /\ _to_date_str(date) < date_from)

InLedgerRange(date, date_from, date_to) ==
    /\ ~(date_from # None /\ _to_date_str(date) < date_from)
    /\ ~(date_to # None /\ _to_date_str(date) > date_to)

\* Faulty variant: the ledger lists void transactions and entries as well.
LedgerRaw_KeepVoid(txns, jes, account_id, date_from, date_to) ==
    LET tids == EntriesByDate(txns, {t \in DOMAIN txns :
                    /\ (txns[t].debit_account_id = account_id
                        \/ txns[t].credit_account_id = account_id)
                    /\ InLedgerRange(txns[t].date, date_from, date_to)})
        jids == EntriesByDate(jes, {e \in DOMAIN jes :
                    InLedgerRange(jes[e].date, date_from, date_to)})
        own(e) == SelectSeq(jes[e].lines, LAMBDA jl : jl.account_id = account_id)
    IN  [i \in 1..Len(tids) |->
            LedgerRow(txns[tids[i]].date, "TXN", tids[i],
                IF txns[tids[i]].debit_account_id = account_id
                THEN txns[tids[i]].amount ELSE 0,
                IF txns[tids[i]].credit_account_id = account_id
                THEN txns[tids[i]].amount ELSE 0)]
        \o Flatten([i \in 1..Len(jids) |->
            [k \in 1..Len(own(jids[i])) |->
                LedgerRow(jes[jids[i]].date, "JE", jids[i],
                          own(jids[i])[k].debit, own(jids[i])[k].credit)]])

LedgerRaw(txns, jes, account_id, date_from, date_to) ==
    LET tids == EntriesByDate(txns, {t \in DOMAIN txns :
                    /\ (txns[t].debit_account_id = account_id
                        \/ txns[t].credit_account_id = account_id)
                    /\ ~IsVoid(txns[t])
                    /\ InLedgerRange(txns[t].date, date_from, date_to)})
        jids == EntriesByDate(jes, {e \in DOMAIN jes :
                    /\ ~IsVoid(jes[e])
                    /\ InLedgerRange(jes[e].date, date_from, date_to)})
        own(e) == SelectSeq(jes[e].lines, LAMBDA jl : jl.account_id = account_id)
    IN  [i \in 1..Len(tids) |->
            LedgerRow(txns[tids[i]].date, "TXN", tids[i],
                IF txns[tids[i]].debit_account_id = account_id
                THEN txns[tids[i]].amount ELSE 0,
                IF txns[tids[i]].credit_account_id = account_id
                THEN txns[tids[i]].amount ELSE 0)]
        \o Flatten([i \in 1..Len(jids) |->
            [k \in 1..Len(own(jids[i])) |->
                LedgerRow(jes[jids[i]].date, "JE", jids[i],
                          own(jids[i])[k].debit, own(jids[i])[k].credit)]])

\* raw.sort(key=(date, txn_id)): stable, so rows of equal key keep their place.
SortLedger(raw) ==
    LET before(i, j) ==
            \/ raw[i].date < raw[j].date
            \/ (raw[i].date = raw[j].date /\ LabelLess(raw[i].txn_id, raw[j].txn_id))
            \/ (raw[i].date = raw[j].date /\ raw[i].txn_id = raw[j].txn_id /\ i < j)
        order == Sorted(DOMAIN raw, before)
    IN  [i \in 1..Len(order) |-> raw[order[i]]]

\* Faulty variant: the running balance is not carried from entry to entry.
RunningBalances_NoCarry(rows, debit_normal, running) ==
    [i \in 1..Len(rows) |->
        [date |-> rows[i].date, txn_id |-> rows[i].txn_id,
         debit |-> rows[i].debit, credit |-> rows[i].credit,
         balance |-> IF debit_normal THEN rows[i].debit - rows[i].credit
                                     ELSE rows[i].credit - rows[i].debit]]

RECURSIVE RunningBalances(_, _, _)
RunningBalances(rows, debit_normal, running) ==
    IF rows = <<>> THEN <<>>
    ELSE LET e == Head(rows)
             next == running + (IF debit_normal THEN e.debit - e.credit
                                             ELSE e.credit - e.debit)
         IN  <<[date |-> e.date, txn_id |-> e.txn_id, debit |-> e.debit,
                credit |-> e.credit, balance |-> next]>>
             \o RunningBalances(Tail(rows), debit_normal, next)

_general_ledger_data(accs, txns, jes, account_id, date_from, date_to) ==
    IF account_id = None \/ account_id \notin DOMAIN accs
    THEN [account |-> None, entries |-> <<>>]
    ELSE [account |-> account_id,
          entries |-> RunningBalances(
              SortLedger(LedgerRaw(txns, jes, account_id, date_from, date_to)),
              IsDebitNormal(accs[account_id].type), 0)]

\* GET /api/transactions/detail?id=T-<n> or JE-<n>
api_transaction_detail(txns, jes, kind, id) ==
    IF kind = "T"
    THEN IF id \in DOMAIN txns
         THEN [code |-> 200, status |-> txns[id].status]
         ELSE [code |-> 404, status |-> ""]
    ELSE IF kind = "JE"
    THEN IF id \in DOMAIN jes
         THEN [code |-> 200, status |-> jes[id].status]
         ELSE [code |-> 404, status |-> ""]
    ELSE [code |-> 400, status |-> ""]

----------------------------------------------------------------------------
(* Requests the model sends *)

\* An id no row of the accounts table can have.
UnknownId == MaxAccounts + 3

\* utcnow() as requests arrive: a time of day on the first day, midnight of
\* the second.
Early == DateTime(1, 1)
Late == DateTime(2, 0)

AddRequests ==
    { [amount_ok |-> TRUE, amount |-> 250, type |-> "income", now |-> Early],
      [amount_ok |-> TRUE, amount |-> 80, type |-> "refund", now |-> Late],
      [amount_ok |-> FALSE, amount |-> 0, type |-> "expense", now |-> Late] }

\* The /add requests sent while the chart of accounts changes: those of
\* AddRequests and one with a negative amount.
PostRequests ==
    AddRequests
        \cup { [amount_ok |-> TRUE, amount |-> -50, type |-> "expense", now |-> Early] }

JournalRequest(description, date_str, tax_rate_id, lines, now) ==
    [description |-> description, date_str |-> date_str,
     tax_rate_id |-> tax_rate_id, lines |-> lines, now |-> now]

JournalRequests ==
    { JournalRequest("Sale", None, 2, <<Line(4, 0, 100), Line(1, 100, 0)>>, Late),
      JournalRequest("Supplies", DateTime(1, 0), 2,
          <<Line(5, 60, 0), Line(5, 40, 0), Line(1, 0, 100)>>, Late),
      JournalRequest("Supplies", None, None,
          <<Line(5, 60, 0), Line(1, 0, 50)>>, Early),
      JournalRequest("Sale", None, 3,
          <<Line(1, 100, 0), Line(4, 0, 99)>>, Early),
      JournalRequest("Sale", None, None,
          <<Line(1, 100, 0), Line(None, 0, 100)>>, Early),
      JournalRequest("Sale", None, None,
          <<Line(UnknownId, 100, 0), Line(1, 0, 100)>>, Early),
      JournalRequest("", None, None,
          <<Line(4, 0, 100), Line(1, 100, 0)>>, Early) }

ImportRequests ==
    { [rows |-> <<>>, now |-> Early],
      [rows |-> <<ImportRow(None, 60, 0, None), ImportRow(4, 0, 0, None),
                  ImportRow(4, 0, 40, DateTime(1, 0))>>, now |-> Late] }

\* Journal requests for the general ledger: dated entries with several lines
\* on the cash account, one of them with neither debit nor credit, and one
\* dated at the instant of a transaction.
LedgerRequests ==
    { JournalRequest("Sale", DateTime(1, 0), None,
          <<Line(1, 100, 0), Line(4, 0, 100)>>, Late),
      JournalRequest("Rent", Late, None,
          <<Line(1, 0, 30), Line(1, 0, 0), Line(5, 30, 0)>>, Late),
      JournalRequest("Sale", None, 2,
          <<Line(4, 0, 100), Line(1, 100, 0)>>, Early),
      JournalRequest("Rent", None, None,
          <<Line(5, 30, 0), Line(1, 0, 10)>>, Early) }

\* The reason and the utcnow() of a void request.
VoidStamps ==
    { [reason |-> "", now |-> Early], [reason |-> "duplicate", now |-> Late] }

NewAccounts == { [type |-> "asset", code |-> <<0, 5, 0, 0>>] }

\* PUT bodies that change an account's type.
TypeUpdates ==
    { <<4, [f \in {"type"} |-> "expense"]>>,
      <<UnknownId, [f \in {"type"} |-> "asset"]>> }

\* PUT bodies that change an account's code.
CodeUpdates ==
    { <<1, [f \in {"code"} |-> <<1, 5, 0, 0>>]>>,
      <<2, [f \in {"code"} |-> <<2, 3, 5, 0>>]>> }

\* Lines of the journal requests of SpecJournal: cash, income, expense, an
\* unknown account or none, with these debit and credit amounts.
RichLines ==
    { Line(a, p[1], p[2]) :
        a \in {None, 1, 4, 5, UnknownId},
        p \in { <<100, 0>>, <<0, 100>>, <<60, 0>>, <<40, 0>>, <<10, 0>>,
                <<0, 10>>, <<0, 99>>, <<0, 0>> } }

RichRequests ==
    { JournalRequest("Sale", None, tax_rate_id, lines, Early) :
        tax_rate_id \in {None, 2, 3},
        lines \in UNION { [1..n -> RichLines] : n \in 0..3 } }
    \cup { JournalRequest("", None, None, <<Line(4, 0, 100), Line(1, 100, 0)>>, Early) }

----------------------------------------------------------------------------
Init ==
    /\ accounts = DEFAULT_ACCOUNTS
    /\ transactions = <<>>
    /\ journal_entries = <<>>
    /\ last = Response("init", 200, "", None)

AddTransaction ==
    \E r \in AddRequests : add_transaction(r.amount_ok, r.amount, r.type, r.now)

JournalPost ==
    \E r \in JournalRequests :
        api_journal_post(r.description, r.date_str, r.tax_rate_id, r.lines, r.now)

ImportTransactions ==
    \E r \in ImportRequests : api_import_transactions(r.rows, r.now)

VoidTransaction ==
    \E txn_type \in {"T", "JE", "X"}, txn_id \in 1..(MaxRows + 1),
       stamp \in VoidStamps :
        api_void_transaction(txn_type, txn_id, stamp.reason, stamp.now)

ClearDb == clear_db

CreateAccount ==
    \E name \in {"", "Petty Cash"}, acc \in NewAccounts :
        api_create_account(name, acc.type, acc.code)

UpdateAccountType ==
    \E u \in TypeUpdates : api_update_account(u[1], u[2])

UpdateAccountCode ==
    \E u \in CodeUpdates : api_update_account(u[1], u[2])

\* The routes that write the transactions and journal tables.
Next ==
    \/ AddTransaction
    \/ JournalPost
    \/ ImportTransactions
    \/ VoidTransaction
    \/ ClearDb

Spec == Init /\ [][Next]_vars

\* The steps of Spec that write a table.  A request that is refused, or that
\* writes what is there already, changes only last, so SpecLedger reaches
\* the tables Spec reaches.
TablesChange ==
    <<accounts, transactions, journal_entries>>'
        # <<accounts, transactions, journal_entries>>

NextLedger ==
    \/ AddTransaction /\ TablesChange
    \/ JournalPost /\ TablesChange
    \/ ImportTransactions /\ TablesChange
    \/ VoidTransaction /\ TablesChange
    \/ ClearDb /\ TablesChange

SpecLedger == Init /\ [][NextLedger]_vars

PostTransaction ==
    \E r \in PostRequests : add_transaction(r.amount_ok, r.amount, r.type, r.now)

\* /add on a chart of accounts that is being edited.
NextChart ==
    \/ CreateAccount
    \/ UpdateAccountType
    \/ UpdateAccountCode
    \/ PostTransaction

SpecChart == Init /\ [][NextChart]_vars

LedgerPost ==
    \E r \in LedgerRequests :
        api_journal_post(r.description, r.date_str, r.tax_rate_id, r.lines, r.now)

\* Transactions and dated journal entries, as the general ledger lists them.
NextGeneralLedger ==
    \/ AddTransaction
    \/ LedgerPost
    \/ VoidTransaction

SpecGeneralLedger == Init /\ [][NextGeneralLedger]_vars

\* One journal request, of any shape, posted to the seeded books.
JournalPostOnce ==
    /\ last.op = "init"
    /\ \E r \in RichRequests :
           api_journal_post(r.description, r.date_str, r.tax_rate_id, r.lines, r.now)

NextJournal == JournalPostOnce

SpecJournal == Init /\ [][NextJournal]_vars

\* Journal posts on a chart whose well-known accounts are being edited: the
\* codes of the cash and tax accounts change, the cash account is retyped.
CashUpdates == { <<1, [f \in {"type"} |-> "expense"]>> }

UpdateCashType ==
    \E u \in CashUpdates : api_update_account(u[1], u[2])

NextTax ==
    \/ UpdateAccountCode
    \/ UpdateCashType
    \/ JournalPost

SpecTax == Init /\ [][NextTax]_vars

\* The general-ledger routes plus a journal post with a line that carries
\* no amount on an account the entry does not otherwise touch.
MemoRequests ==
    { JournalRequest("Memo", None, None,
          <<Line(1, 10, 0), Line(4, 0, 10), Line(5, 0, 0)>>, Early) }

MemoPost ==
    \E r \in MemoRequests :
        api_journal_post(r.description, r.date_str, r.tax_rate_id, r.lines, r.now)

NextReconcile ==
    \/ AddTransaction
    \/ LedgerPost
    \/ MemoPost
    \/ VoidTransaction

SpecReconcile == Init /\ [][NextReconcile]_vars

----------------------------------------------------------------------------
(* The ledger as the reports see it *)

AllLines == _collect_all_lines(transactions, journal_entries, None, None, None)

Balances == _account_balances(accounts, AllLines, NoFilter)

\* The sum of the balances the aggregator computed with the sign of type.
TypeTotal(balances, type) ==
    LET aids == IdsInOrder({a \in DOMAIN balances :
                                AccountTypeOf(accounts, a) = type})
    IN  SumSeq([i \in 1..Len(aids) |-> balances[aids[i]]])

Balanced(je) == SumDebit(je.lines) = SumCredit(je.lines)

PostedEntries == {e \in DOMAIN journal_entries : ~IsVoid(journal_entries[e])}

PostedTransactions == {t \in DOMAIN transactions : ~IsVoid(transactions[t])}

\* C1: when every journal entry that counts has debits = credits, the
\* all-time unfiltered balances satisfy
\* assets = liabilities + equity + income - expenses.
C1_AccountingEquation ==
    (\A e \in PostedEntries : Balanced(journal_entries[e]))
    => TypeTotal(Balances, "asset") =
         TypeTotal(Balances, "liability") + TypeTotal(Balances, "equity")
         + TypeTotal(Balances, "income") - TypeTotal(Balances, "expense")

\* A posted transaction and a posted balanced entry carrying tax lines, with
\* money on both sides of the equation.
C1_Witness ==
    /\ PostedTransactions # {}
    /\ \E e \in PostedEntries :
          /\ Balanced(journal_entries[e])
          /\ Len(journal_entries[e].lines) = 4
    /\ TypeTotal(Balances, "asset") > 0
    /\ TypeTotal(Balances, "liability") > 0
    /\ TypeTotal(Balances, "income") > 0

----------------------------------------------------------------------------
(* Void *)

\* A table without its voided rows.
WithoutVoid(table) ==
    [id \in {i \in DOMAIN table : ~IsVoid(table[i])} |-> table[id]]

\* The date arguments the routes hand to _collect_all_lines: from and to
\* (the reports, the dashboard's month) or as_of alone (the dashboard).
Windows ==
    {<<df, dt, None>> : df \in DateFilters, dt \in DateFilters}
        \cup {<<None, None, ao>> : ao \in DateFilters}

\* The answers of the reporting routes to one choice of from/to arguments.
Reports(accs, txns, jes, df, dt) ==
    << _balance_sheet_data(accs, txns, jes, df, dt),
       _income_statement_data(accs, txns, jes, df, dt),
       [a \in DOMAIN accs \cup {UnknownId} |->
            _general_ledger_data(accs, txns, jes, a, df, dt)] >>

\* The queries answer as they would had the voided rows never been written.
VoidExcluded(accs, txns, jes) ==
    \/ /\ \A t \in DOMAIN txns : ~IsVoid(txns[t])
       /\ \A e \in DOMAIN jes : ~IsVoid(jes[e])
    \/ /\ \A w \in Windows :
            _account_balances(accs,
                _collect_all_lines(txns, jes, w[1], w[2], w[3]), NoFilter)
              = _account_balances(accs,
                    _collect_all_lines(WithoutVoid(txns), WithoutVoid(jes),
                                       w[1], w[2], w[3]),
                    NoFilter)
       /\ \A df \in DateFilters, dt \in DateFilters :
            Reports(accs, txns, jes, df, dt)
              = Reports(accs, WithoutVoid(txns), WithoutVoid(jes), df, dt)

VoidDetail(txns, jes, kind, id) ==
    api_transaction_detail(txns, jes, kind, id) = [code |-> 200, status |-> "void"]

\* The voided rows of table stay retrievable, as void, after the step.
StaysRetrievable(table, kind) ==
    \A id \in DOMAIN table :
        IsVoid(table[id]) => VoidDetail(transactions', journal_entries', kind, id)

C3_VoidIrreversible ==
    [][/\ \A t \in DOMAIN transactions \cap DOMAIN transactions' :
              IsVoid(transactions[t]) => IsVoid(transactions'[t])
       /\ \A e \in DOMAIN journal_entries \cap DOMAIN journal_entries' :
              IsVoid(journal_entries[e]) => IsVoid(journal_entries'[e])]_vars

\* A void request answered 200 for a row that was void already.
C3_Witness ==
    /\ last.op = "void" /\ last.code = 200
    /\ \E t \in DOMAIN transactions :
          IsVoid(transactions[t]) /\ transactions[t].voided_reason = "duplicate"
    /\ \E e \in DOMAIN journal_entries :
          IsVoid(journal_entries[e]) /\ journal_entries[e].voided_at = Late

SameVoidStamp(before, after) ==
    /\ after.voided_at = before.voided_at
    /\ after.voided_reason = before.voided_reason

\* C4: a row that is void keeps the voided_at and voided_reason of its first
\* void, whatever void request follows.
C4_FirstVoidKept ==
    [][/\ \A t \in DOMAIN transactions \cap DOMAIN transactions' :
              IsVoid(transactions[t])
                  => SameVoidStamp(transactions[t], transactions'[t])
       /\ \A e \in DOMAIN journal_entries \cap DOMAIN journal_entries' :
              IsVoid(journal_entries[e])
                  => SameVoidStamp(journal_entries[e], journal_entries'[e])]_vars

----------------------------------------------------------------------------
(* One journal post: the request in last, the entry in journal_entries *)

\* The lines of the request that name an account.
PostedLines == SelectSeq(last.lines, LAMBDA l : l.account_id # None)

LineDifference == Abs(SumDebit(PostedLines) - SumCredit(PostedLines))

Accepted ==
    /\ last.op = "journal" /\ last.code = 200
    /\ last.id \in DOMAIN journal_entries

Rejected(error) ==
    /\ last.op = "journal" /\ last.code = 400 /\ last.error = error
    /\ journal_entries = <<>>

WrittenEntry == journal_entries[last.id]

\* A journal request with a description and at least two account lines.
WellFormedPost ==
    /\ last.op = "journal"
    /\ last.description # ""
    /\ Len(PostedLines) >= 2

\* C6 as claimed: a post of at least two lines is accepted when debits and
\* credits differ by at most 0.01, and refused with "Debits must equal
\* credits", nothing persisted, when they differ by more.
C6_AcceptedWithinTolerance ==
    WellFormedPost =>
        /\ LineDifference <= Tolerance => Accepted
        /\ LineDifference > Tolerance => Rejected("Debits must equal credits")

\* C6 amended: a post of at least two lines is accepted when debits and
\* credits differ by less than 0.01, and refused with "Debits must equal
\* credits", nothing persisted, when they differ by more than 0.01; at a
\* difference of exactly 0.01 it is one or the other.
C6_BalanceCheck ==
    WellFormedPost =>
        /\ LineDifference < Tolerance => Accepted
        /\ LineDifference > Tolerance => Rejected("Debits must equal credits")
        /\ LineDifference = Tolerance
              => Accepted \/ Rejected("Debits must equal credits")

\* The three balanced lines expense 60, expense 40, cash 100 were accepted.
C6_Witness ==
    /\ Accepted
    /\ last.lines = <<Line(5, 60, 0), Line(5, 40, 0), Line(1, 0, 100)>>
    /\ WrittenEntry.lines = last.lines

\* C7: a post with fewer than two lines that name an account fails, and
\* writes no entry and no line.
C7_TwoLinesRequired ==
    (last.op = "journal" /\ Len(PostedLines) < 2)
        => /\ last.code = 400
           /\ journal_entries = <<>>

\* Two balanced lines of which one names no account were refused.
C7_Witness ==
    /\ Rejected("At least 2 lines required")
    /\ Len(last.lines) = 2
    /\ Len(PostedLines) = 1
    /\ SumDebit(last.lines) = SumCredit(last.lines)

\* The balances the aggregator computes from the lines of one entry.
EntryBalances(lines) ==
    _account_balances(accounts, JournalLineRows(JournalEntry(Early, lines)),
                      NoFilter)

BalanceOf(balances, aid) ==
    IF aid \in DOMAIN balances THEN balances[aid] ELSE 0

\* The designated tax-liability and cash accounts.
Designated == {AccountByCode(accounts, TaxCode), CashAccount(accounts)}

Round2(n) == {t \in {n \div 100, n \div 100 + 1} : Abs(100 * t - n) <= 50}

\* The amounts of the posted lines on accounts of a type, by side.
TaxableOn(type, side) ==
    SumSeq([i \in 1..Len(PostedLines) |->
        IF /\ PostedLines[i].account_id \in DOMAIN accounts
           /\ accounts[PostedLines[i].account_id].type = type
        THEN PostedLines[i][side] ELSE 0])

\* C10: with the tax and cash accounts present, the lines appended to an
\* accepted post with a tax rate are: when the rounded tax on the income
\* credits exceeds 0.01, a credit of it to the tax account and a debit of it
\* to the cash account; then, when the rounded tax on the expense debits
\* exceeds 0.01, a debit of it to the tax account and a credit of it to the
\* cash account; and nothing else.
C10_TaxSurcharge ==
    (/\ Accepted
     /\ last.tax_rate_id \in DOMAIN TaxRates
     /\ None \notin Designated) =>
        LET tax == AccountByCode(accounts, TaxCode)
            cash == CashAccount(accounts)
            rate == TaxRates[last.tax_rate_id]
            n == Len(PostedLines)
            written == WrittenEntry.lines
        IN  /\ Len(written) >= n
            /\ SubSeq(written, 1, n) = PostedLines
            /\ \E tax_on_income \in Round2(TaxableOn("income", "credit") * rate),
                   tax_on_expense \in Round2(TaxableOn("expense", "debit") * rate) :
                  SubSeq(written, n + 1, Len(written)) =
                      (IF tax_on_income > TaxThreshold
                       THEN <<Line(tax, 0, tax_on_income),
                              Line(cash, tax_on_income, 0)>>
                       ELSE <<>>)
                      \o
                      (IF tax_on_expense > TaxThreshold
                       THEN <<Line(tax, tax_on_expense, 0),
                              Line(cash, 0, tax_on_expense)>>
                       ELSE <<>>)

\* An income credit and an expense debit of 100 posted with HST: 13 on each
\* side, four lines appended.
C10_Witness ==
    /\ Accepted
    /\ last.tax_rate_id = 2
    /\ last.lines = <<Line(4, 0, 100), Line(5, 100, 0)>>
    /\ Len(WrittenEntry.lines) = 6

----------------------------------------------------------------------------
(* Order of the balance check and the tax block *)

\* The lines the tax block appended to the posted ones.
TaxLinesWritten ==
    SubSeq(WrittenEntry.lines, Len(PostedLines) + 1, Len(WrittenEntry.lines))

----------------------------------------------------------------------------
(* Balance Aggregator *)

\* The account ids a filter can name: those of the table and one of no row.
FilterIds == DOMAIN accounts \cup {UnknownId}

Restrict(balances, S) == [aid \in DOMAIN balances \cap S |-> balances[aid]]

\* C12: for every set S of account ids, the balances computed with the
\* filter S are the unfiltered balances restricted to S: the same accounts,
\* the same values.
C12_FilterIsRestriction ==
    \A S \in SUBSET FilterIds :
        _account_balances(accounts, AllLines, S) = Restrict(Balances, S)

\* Balances on three accounts or more, of which a filter keeps exactly two.
C12_Witness ==
    /\ Cardinality(DOMAIN Balances) >= 3
    /\ DOMAIN _account_balances(accounts, AllLines, {1, 4, 5}) = {1, 4}
    /\ UnknownId \in DOMAIN Balances

\* The sum of one side (debit or credit) of the lines on one account.
RECURSIVE SideTotal(_, _, _)
SideTotal(lines, aid, side) ==
    IF lines = <<>> THEN 0
    ELSE (IF Head(lines).account_id = aid THEN Head(lines)[side] ELSE 0)
         + SideTotal(Tail(lines), aid, side)

\* C13: the aggregator answers for exactly the accounts of the lines, and
\* for each that has a row: total debit - total credit when its type is asset
\* or expense, total credit - total debit when it is liability, equity or
\* income.
C13_SignConvention ==
    /\ DOMAIN Balances = {AllLines[i].account_id : i \in 1..Len(AllLines)}
    /\ \A aid \in DOMAIN Balances \cap DOMAIN accounts :
          LET total_debit == SideTotal(AllLines, aid, "debit")
              total_credit == SideTotal(AllLines, aid, "credit")
          IN  /\ accounts[aid].type \in {"asset", "expense"}
                    => Balances[aid] = total_debit - total_credit
              /\ accounts[aid].type \in {"liability", "equity", "income"}
                    => Balances[aid] = total_credit - total_debit

\* Lines on both sides of the cash account, and balances on an expense, an
\* income and a liability account.
C13_Witness ==
    /\ SideTotal(AllLines, 1, "debit") > 0
    /\ SideTotal(AllLines, 1, "credit") > 0
    /\ {2, 4, 5} \subseteq DOMAIN Balances
    /\ Balances[5] > 0 /\ Balances[4] > 0 /\ Balances[2] # 0

----------------------------------------------------------------------------
(* General Ledger *)

Ledger(aid, df, dt) ==
    _general_ledger_data(accounts, transactions, journal_entries, aid, df, dt).entries

\* The place of a label among the labels: "JE-000001" < "JE-000002" < ... <
\* "TXN-000001" < ..., as strings, for ids below a million.
LabelRank(txn_id) ==
    IF txn_id[1] = "JE" THEN txn_id[2] ELSE 1000000 + txn_id[2]

InLedgerOrder(e, f) ==
    \/ e.date < f.date
    \/ (e.date = f.date /\ LabelRank(e.txn_id) <= LabelRank(f.txn_id))

\* What an entry adds to the running balance of an account of this type.
SignedAmount(e, type) ==
    IF type \in {"asset", "expense"} THEN e.debit - e.credit
    ELSE e.credit - e.debit

\* The rows of the posted entries that touch the account: one for a
\* transaction, one for each journal line, those of no amount included.
TouchingRows(aid) ==
    Cardinality({t \in PostedTransactions :
                    \/ transactions[t].debit_account_id = aid
                    \/ transactions[t].credit_account_id = aid})
    + SumSeq([i \in 1..Len(journal_entries) |->
          IF IsVoid(journal_entries[i]) THEN 0
          ELSE Len(SelectSeq(journal_entries[i].lines,
                             LAMBDA jl : jl.account_id = aid))])

\* C14: the general ledger of an account lists every posted row touching it,
\* rows of no amount included; whatever the date range, its entries are in
\* (date, label) order and its running balance is the fold from 0 that adds
\* debit - credit for a debit-normal account and credit - debit for a
\* credit-normal one.
C14_RunningBalanceFold ==
    \A aid \in DOMAIN accounts :
        /\ Len(Ledger(aid, None, None)) = TouchingRows(aid)
        /\ \A df \in DateFilters, dt \in DateFilters :
              LET entries == Ledger(aid, df, dt)
              IN  \A i \in 1..Len(entries) :
                    /\ i > 1 => InLedgerOrder(entries[i - 1], entries[i])
                    /\ entries[i].balance =
                          (IF i = 1 THEN 0 ELSE entries[i - 1].balance)
                          + SignedAmount(entries[i], accounts[aid].type)

\* The cash account with the lines (100, 0), (0, 30), (0, 0) in this order:
\* the running balances are 100, 70, 70.
C14_Witness ==
    LET entries == Ledger(1, None, None)
    IN  /\ [i \in 1..Len(entries) |-> <<entries[i].debit, entries[i].credit>>]
              = <<(<<100, 0>>), (<<0, 30>>), (<<0, 0>>)>>
        /\ [i \in 1..Len(entries) |-> entries[i].balance] = <<100, 70, 70>>

----------------------------------------------------------------------------
(* POST /add *)

\* The last request was an /add that stored a transaction.
Added == last.op = "add" /\ last.code = 200 /\ last.id \in DOMAIN transactions

AddedTransaction == transactions[last.id]

\* The account an /add books as cash: the side that is not the income or
\* the expense account.
CashUsed ==
    IF AddedTransaction.type = "income"
    THEN AddedTransaction.debit_account_id
    ELSE AddedTransaction.credit_account_id

HasCashCode == \E a \in DOMAIN accounts : accounts[a].code = CashCode

TypeOfAccount(aid) == IF aid \in DOMAIN accounts THEN accounts[aid].type ELSE ""

\* C15: an accepted /add stores a posted transaction of type income (debit
\* cash, credit an income account) or expense (debit an expense account,
\* credit cash), cash being the account of code "1000" or else an asset
\* account; the line source emits for it one debit line and one credit line
\* of the transaction's amount.
C15_OneDebitOneCredit ==
    Added =>
        LET t == AddedTransaction
            ds == t.date \div TicksPerDay
        IN  /\ t.status = "posted"
            /\ t.type \in {"income", "expense"}
            /\ IF HasCashCode
               THEN accounts[CashUsed].code = CashCode
               ELSE TypeOfAccount(CashUsed) = "asset"
            /\ t.type = "income" => TypeOfAccount(t.credit_account_id) = "income"
            /\ t.type = "expense" => TypeOfAccount(t.debit_account_id) = "expense"
            /\ _collect_all_lines(<<t>>, <<>>, None, None, None)
                 = << [date |-> ds, account_id |-> t.debit_account_id,
                       debit |-> t.amount, credit |-> 0],
                      [date |-> ds, account_id |-> t.credit_account_id,
                       debit |-> 0, credit |-> t.amount] >>

\* An income of 2.50 after an expense of 0.80, on the seeded accounts.
C15_Witness ==
    /\ Added
    /\ last.id = 2
    /\ AddedTransaction.type = "income" /\ AddedTransaction.amount = 250
    /\ AddedTransaction.debit_account_id = 1
    /\ AddedTransaction.credit_account_id = 4
    /\ transactions[1].type = "expense"
    /\ transactions[1].debit_account_id = 5 /\ transactions[1].credit_account_id = 1

\* C16: when no account has the code "1000", the cash account of an accepted
\* /add is an asset account of the lowest code among the asset accounts.
C16_LowestCodeAssetIsCash ==
    (Added /\ ~HasCashCode) =>
        /\ TypeOfAccount(CashUsed) = "asset"
        /\ \A a \in DOMAIN accounts :
              accounts[a].type = "asset"
                  => ~CodeLess(accounts[a].code, accounts[CashUsed].code)

\* C17: no stored transaction has a negative amount, /add refusing one.
C17_NoNegativeAmount ==
    \A t \in DOMAIN transactions : transactions[t].amount >= 0

----------------------------------------------------------------------------
(* Validation and atomicity of POST /api/transactions/journal *)

\* C18: a post with a line on an account id that has no row is refused and
\* writes nothing, so every persisted journal line is on an existing account.
C18_UnknownAccountRejected ==
    /\ (/\ last.op = "journal"
        /\ \E i \in 1..Len(PostedLines) :
              PostedLines[i].account_id \notin DOMAIN accounts)
          => (last.code = 400 /\ journal_entries = <<>>)
    /\ \A e \in DOMAIN journal_entries :
          \A i \in 1..Len(journal_entries[e].lines) :
              journal_entries[e].lines[i].account_id \in DOMAIN accounts

\* The lines of the request of the step that name an account.
PostedLinesNext == SelectSeq(last'.lines, LAMBDA l : l.account_id # None)

----------------------------------------------------------------------------
(* Date range of the Ledger Line Source *)

\* The day of a row lies in the range, a bound of None not restricting.
DayInRange(row, from, to) ==
    LET d == row.date \div TicksPerDay
    IN  /\ (from = None \/ from <= d)
        /\ (to = None \/ d <= to)

\* The rows of a table that are not void and dated in the range.
RowsInRange(table, from, to) ==
    SelectSeq(table, LAMBDA row : row.status # "void" /\ DayInRange(row, from, to))

Collected(df, dt, ao) ==
    _collect_all_lines(transactions, journal_entries, df, dt, ao)

\* C20: the lines emitted for date_from and date_to are those of exactly the
\* rows that are not void and dated from date_from to date_to, both days
\* included, an omitted bound not restricting; as_of alone is date_to alone,
\* and given with the others it is one more inclusive upper bound.
C20_InclusiveDateRange ==
    /\ \A df \in DateFilters, dt \in DateFilters :
          Collected(df, dt, None) =
              _collect_all_lines(RowsInRange(transactions, df, dt),
                                 RowsInRange(journal_entries, df, dt),
                                 None, None, None)
    /\ \A ao \in DateFilters : Collected(None, None, ao) = Collected(None, ao, None)
    /\ \A df \in DateFilters, dt \in DateFilters, ao \in Days :
          Collected(df, dt, ao) =
              Collected(df, IF dt = None \/ ao < dt THEN ao ELSE dt, None)

\* Rows on both days: each one-day range keeps some lines and drops others.
C20_Witness ==
    /\ Len(Collected(1, 1, None)) > 0
    /\ Len(Collected(2, 2, None)) > 0
    /\ Len(Collected(1, 1, None)) + Len(Collected(2, 2, None))
          = Len(Collected(1, 2, None))

-----------------------------------------------------------------------------
\* Balance Sheet and Income Statement.

SheetTypes == {"asset", "liability", "equity"}

\* The aggregator's result for the lines of a date window.
BalancesIn(df, dt) ==
    _account_balances(accounts, Collected(df, dt, None), NoFilter)

BalanceSheet(df, dt) ==
    _balance_sheet_data(accounts, transactions, journal_entries, df, dt)

Bucket(sheet, type) ==
    CASE type = "asset" -> sheet.assets
      [] type = "liability" -> sheet.liabilities
      [] type = "equity" -> sheet.equity

BucketTotal(sheet, type) ==
    CASE type = "asset" -> sheet.total_assets
      [] type = "liability" -> sheet.total_liabilities
      [] type = "equity" -> sheet.total_equity

RowIds(rows) == {rows[i].id : i \in 1..Len(rows)}

RECURSIVE RowSum(_)
RowSum(rows) ==
    IF rows = <<>> THEN 0 ELSE Head(rows).balance + RowSum(Tail(rows))

\* C21: for every date window, each row of a Balance Sheet bucket is an
\* account of the bucket's type whose balance is the aggregator's and is at
\* least one cent in absolute value, each row appears once, every account of
\* that type with a balance of more than one cent in absolute value has a
\* row, an account whose balance is below one cent has none, and the
\* bucket's total is the sum of the balances of the rows shown.
C21_BalanceSheetBuckets ==
    \A df \in DateFilters, dt \in DateFilters :
        LET sheet == BalanceSheet(df, dt)
            bal == BalancesIn(df, dt)
        IN  \A type \in SheetTypes :
                LET rows == Bucket(sheet, type)
                IN  /\ \A i \in 1..Len(rows) :
                            /\ rows[i].id \in DOMAIN bal \cap DOMAIN accounts
                            /\ accounts[rows[i].id].type = type
                            /\ rows[i].balance = bal[rows[i].id]
                            /\ Abs(rows[i].balance) >= 1
                    /\ Cardinality(RowIds(rows)) = Len(rows)
                    /\ \A aid \in DOMAIN bal \cap DOMAIN accounts :
                            (accounts[aid].type = type /\ Abs(bal[aid]) > 1)
                                => aid \in RowIds(rows)
                    /\ BucketTotal(sheet, type) = RowSum(rows)

\* Cash has lines that net to zero and is left out of the sheet of all
\* dates, while the sheet of day 2 alone shows an asset and a liability.
C21_Witness ==
    /\ 1 \in DOMAIN BalancesIn(None, None)
    /\ BalancesIn(None, None)[1] = 0
    /\ BalanceSheet(None, None).assets = <<>>
    /\ BalanceSheet(2, 2).assets # <<>>
    /\ BalanceSheet(2, 2).liabilities # <<>>
    /\ BalanceSheet(2, 2).total_assets = BalancesIn(2, 2)[1]

IncomeStatement(df, dt) ==
    _income_statement_data(accounts, transactions, journal_entries, df, dt)

\* The accounts of one type whose balance in the window is above zero.
Retained(bal, type) ==
    {aid \in DOMAIN bal \cap DOMAIN accounts :
        accounts[aid].type = type /\ bal[aid] > 0}

RECURSIVE BalanceSum(_, _)
BalanceSum(bal, ids) ==
    IF ids = {} THEN 0
    ELSE LET aid == CHOOSE x \in ids : TRUE
         IN  bal[aid] + BalanceSum(bal, ids \ {aid})

\* The rows are those of the accounts ids, one row each, in some order.
RowsOf(rows, bal, ids) ==
    /\ Len(rows) = Cardinality(ids)
    /\ \E f \in [1..Len(rows) -> ids] :
            /\ \A i, j \in 1..Len(rows) : f[i] = f[j] => i = j
            /\ \A i \in 1..Len(rows) :
                    rows[i] = [code |-> accounts[f[i]].code, balance |-> bal[f[i]]]

\* C22: for every date window the Income Statement lists exactly the income
\* accounts and the expense accounts whose balance is strictly positive;
\* total_revenue and total_expenses are the sums of the balances of those
\* retained accounts alone, and net_income is total_revenue - total_expenses.
C22_IncomeStatementRetained ==
    \A df \in DateFilters, dt \in DateFilters :
        LET st == IncomeStatement(df, dt)
            bal == BalancesIn(df, dt)
        IN  /\ RowsOf(st.revenue_accounts, bal, Retained(bal, "income"))
            /\ RowsOf(st.expense_accounts, bal, Retained(bal, "expense"))
            /\ st.total_revenue = BalanceSum(bal, Retained(bal, "income"))
            /\ st.total_expenses = BalanceSum(bal, Retained(bal, "expense"))
            /\ st.net_income = st.total_revenue - st.total_expenses

\* An expense account with a negative balance is left out and does not
\* lower the total, next to an income account that is listed.
C22_Witness ==
    /\ 5 \in DOMAIN BalancesIn(None, None)
    /\ BalancesIn(None, None)[5] < 0
    /\ accounts[5].type = "expense"
    /\ IncomeStatement(None, None).expense_accounts = <<>>
    /\ IncomeStatement(None, None).total_expenses = 0
    /\ IncomeStatement(None, None).revenue_accounts # <<>>
    /\ IncomeStatement(None, None).net_income > 0

-----------------------------------------------------------------------------
\* The reports answer in every state.

EmptySheet ==
    [assets |-> <<>>, total_assets |-> 0,
     liabilities |-> <<>>, total_liabilities |-> 0,
     equity |-> <<>>, total_equity |-> 0]

EmptyStatement ==
    [revenue_accounts |-> <<>>, expense_accounts |-> <<>>,
     total_revenue |-> 0, total_expenses |-> 0, net_income |-> 0]

GeneralLedger(aid, df, dt) ==
    _general_ledger_data(accounts, transactions, journal_entries, aid, df, dt)

\* No transaction and no journal entry that counts is dated in the window.
NothingInRange(df, dt) ==
    /\ RowsInRange(transactions, df, dt) = <<>>
    /\ RowsInRange(journal_entries, df, dt) = <<>>

IsRowList(rows) ==
    /\ DOMAIN rows = 1..Len(rows)
    /\ \A i \in 1..Len(rows) : rows[i].balance \in Int

\* C23: in every state and for every combination of a present or absent
\* from and to date, the Balance Sheet, the Income Statement and the General
\* Ledger of every account id (an existing one, an unknown one, none) yield
\* a result of the documented shape; the General Ledger of an unknown or
\* missing account id has account = none and no entries; and when nothing
\* is dated in the window, both statements have empty row lists and zero
\* totals and every General Ledger is empty.
C23_ReportsTotal ==
    \A df \in DateFilters, dt \in DateFilters :
        LET sheet == BalanceSheet(df, dt)
            st == IncomeStatement(df, dt)
            nothing == NothingInRange(df, dt)
        IN  /\ \A type \in SheetTypes :
                    /\ IsRowList(Bucket(sheet, type))
                    /\ BucketTotal(sheet, type) \in Int
            /\ IsRowList(st.revenue_accounts)
            /\ IsRowList(st.expense_accounts)
            /\ {st.total_revenue, st.total_expenses, st.net_income} \subseteq Int
            /\ \A aid \in DOMAIN accounts :
                    LET gl == GeneralLedger(aid, df, dt)
                    IN  /\ gl.account = aid
                        /\ IsRowList(gl.entries)
                        /\ nothing => gl.entries = <<>>
            /\ \A aid \in {None, UnknownId} :
                    GeneralLedger(aid, df, dt) = [account |-> None, entries |-> <<>>]
            /\ nothing => (sheet = EmptySheet /\ st = EmptyStatement)

\* Rows exist, one of them void, and day 1 holds none of them: the reports
\* of day 1 are empty while the Balance Sheet of all dates is not.
C23_Witness ==
    /\ RowCount = MaxRows
    /\ \E t \in DOMAIN transactions : IsVoid(transactions[t])
    /\ NothingInRange(1, 1)
    /\ ~NothingInRange(None, None)
    /\ BalanceSheet(1, 1) = EmptySheet
    /\ BalanceSheet(None, None) # EmptySheet
    /\ GeneralLedger(1, None, None).entries # <<>>

-----------------------------------------------------------------------------
\* Signs of the ledger lines.

\* C24: every line of the Ledger Line Source has debit >= 0 and credit >= 0.
C24_LinesNonNegative ==
    \A i \in 1..Len(AllLines) :
        AllLines[i].debit >= 0 /\ AllLines[i].credit >= 0

-----------------------------------------------------------------------------
\* Account types.

\* Some transaction or journal line names the account.
Referenced(aid) ==
    \/ \E t \in DOMAIN transactions :
            aid \in {transactions[t].debit_account_id,
                     transactions[t].credit_account_id}
    \/ \E e \in DOMAIN journal_entries :
            \E k \in 1..Len(journal_entries[e].lines) :
                journal_entries[e].lines[k].account_id = aid

TypeChanged(aid) ==
    /\ aid \in DOMAIN accounts \cap DOMAIN accounts'
    /\ accounts'[aid].type # accounts[aid].type

\* C25 as stated: the type of an account that a transaction or a journal
\* line references never changes.
C25_TypeImmutable ==
    [][\A aid \in DOMAIN accounts : Referenced(aid) => ~TypeChanged(aid)]_vars

-----------------------------------------------------------------------------
\* Void stamps.

NoVoidStamp(row) == row.voided_at = None /\ row.voided_reason = ""

\* Rows that are void after the step and were not before have the stamp of
\* the void request answered in that step.
StampedTogether(table, table2) ==
    \A i \in DOMAIN table \cap DOMAIN table2 :
        (~IsVoid(table[i]) /\ IsVoid(table2[i])) =>
            /\ last'.op = "void" /\ last'.code = 200 /\ last'.id = i
            /\ table2[i].voided_at # None
            /\ \E stamp \in VoidStamps :
                    /\ table2[i].voided_at = stamp.now
                    /\ table2[i].voided_reason = stamp.reason

\* C26: a transaction or journal entry that is not void has no voided_at
\* and an empty voided_reason, and the step that makes a row void sets
\* status, voided_at and voided_reason of that row together.
C26_VoidStampOnlyWhenVoid ==
    /\ [](/\ \A t \in DOMAIN transactions :
                /\ transactions[t].status \in {"posted", "void"}
                /\ ~IsVoid(transactions[t]) => NoVoidStamp(transactions[t])
          /\ \A e \in DOMAIN journal_entries :
                /\ journal_entries[e].status \in {"posted", "void"}
                /\ ~IsVoid(journal_entries[e]) => NoVoidStamp(journal_entries[e]))
    /\ [][/\ StampedTogether(transactions, transactions')
          /\ StampedTogether(journal_entries, journal_entries')]_vars

\* A void journal entry with its stamp next to a posted transaction.
C26_Witness ==
    /\ \E e \in DOMAIN journal_entries :
            /\ IsVoid(journal_entries[e])
            /\ journal_entries[e].voided_at = Late
            /\ journal_entries[e].voided_reason = "duplicate"
    /\ \E t \in DOMAIN transactions :
            transactions[t].status = "posted" /\ NoVoidStamp(transactions[t])
    /\ last.op = "void"

-----------------------------------------------------------------------------
\* Tax without the well-known accounts.

TaxAccountMissing == AccountByCode(accounts, TaxCode) = None

CashAccountMissing == CashAccount(accounts) = None

\* C27: a journal post that names a tax rate while no account has the code
\* "2300", or while no cash account exists, is written with exactly the
\* user's lines: no surcharge line is added.
C27_NoSurchargeWithoutAccounts ==
    (/\ Accepted
     /\ last.tax_rate_id # None
     /\ (TaxAccountMissing \/ CashAccountMissing))
        => WrittenEntry.lines = PostedLines

\* The same taxed sale was posted twice: with the seeded chart it got its
\* two surcharge lines, after the tax account's code was changed it got none.
C27_Witness ==
    /\ Accepted
    /\ last.tax_rate_id = 2
    /\ TaxAccountMissing
    /\ ~CashAccountMissing
    /\ Len(WrittenEntry.lines) = 2
    /\ \E k \in 1..2 : /\ WrittenEntry.lines[k].account_id = 4
                       /\ WrittenEntry.lines[k].credit = 100
    /\ \E e \in DOMAIN journal_entries : Len(journal_entries[e].lines) = 4

-----------------------------------------------------------------------------
\* Presence in the aggregator's result.

AccountFilters == {NoFilter, {}, {1}, {1, 4, UnknownId}}

Passes(aid, S) == S = NoFilter \/ aid \in S

\* C28: for every date window and account filter, the aggregator's result
\* has an entry for an account exactly when at least one line of the window
\* is on that account and the account passes the filter; an account without
\* such a line is absent, and an account whose lines have equal debit and
\* credit totals is present with balance 0.
C28_PresentIffLine ==
    \A df \in DateFilters, dt \in DateFilters, S \in AccountFilters :
        LET lines == Collected(df, dt, None)
            result == _account_balances(accounts, lines, S)
        IN  /\ DOMAIN result =
                    {aid \in {lines[i].account_id : i \in 1..Len(lines)} :
                        Passes(aid, S)}
            /\ \A aid \in DOMAIN result :
                    SideTotal(lines, aid, "debit") = SideTotal(lines, aid, "credit")
                        => result[aid] = 0

\* Cash has lines that net to zero and is present with balance 0, while the
\* expense account, active on day 1, is absent from the result of day 2.
C28_Witness ==
    /\ 1 \in DOMAIN BalancesIn(None, None)
    /\ BalancesIn(None, None)[1] = 0
    /\ 5 \in DOMAIN BalancesIn(None, None)
    /\ 5 \notin DOMAIN BalancesIn(2, 2)
    /\ 1 \in DOMAIN BalancesIn(2, 2)
    /\ 4 \notin DOMAIN _account_balances(accounts, AllLines, {1})

-----------------------------------------------------------------------------
\* General Ledger against the aggregator.

\* The aggregator's balance of an account in a window, 0 without an entry.
AggregatedBalance(aid, df, dt) ==
    IF aid \in DOMAIN BalancesIn(df, dt) THEN BalancesIn(df, dt)[aid] ELSE 0

LastBalance(entries) ==
    IF entries = <<>> THEN 0 ELSE entries[Len(entries)].balance

\* The lines carry an amount on the account.
HasNonzeroLine(lines, aid) ==
    \E i \in 1..Len(lines) :
        /\ lines[i].account_id = aid
        /\ (lines[i].debit # 0 \/ lines[i].credit # 0)

\* A transaction or a journal line of the rows names the account, with or
\* without an amount.
HasRowOn(txns, jes, aid) ==
    \/ \E i \in 1..Len(txns) :
            aid \in {txns[i].debit_account_id, txns[i].credit_account_id}
    \/ \E i \in 1..Len(jes) :
            \E k \in 1..Len(jes[i].lines) : jes[i].lines[k].account_id = aid

-----------------------------------------------------------------------------
\* What a void request touches.

\* Between the two tables nothing differs but the three void fields of
\* row id.
OnlyVoidFields(table, table2, id) ==
    /\ id \in DOMAIN table
    /\ DOMAIN table2 = DOMAIN table
    /\ \A i \in DOMAIN table : i # id => table2[i] = table[i]
    /\ table2[id] = [table[id] EXCEPT !.status = table2[id].status,
                                      !.voided_at = table2[id].voided_at,
                                      !.voided_reason = table2[id].voided_reason]

\* C30: an accepted void request on row X changes nothing but the status,
\* voided_at and voided_reason of X: every other field of X, every other
\* transaction and journal entry, and every account stay as they were; a
\* void request that fails (unknown id, or a kind other than T and JE)
\* leaves accounts, transactions and journal entries unchanged.
C30_VoidFrame ==
    [][last'.op = "void" =>
          /\ accounts' = accounts
          /\ IF last'.code = 200
             THEN \/ /\ journal_entries' = journal_entries
                     /\ OnlyVoidFields(transactions, transactions', last'.id)
                  \/ /\ transactions' = transactions
                     /\ OnlyVoidFields(journal_entries, journal_entries', last'.id)
             ELSE /\ last'.code \in {400, 404}
                  /\ UNCHANGED <<transactions, journal_entries>>]_vars

\* A journal entry was voided next to a transaction that stayed posted.
C30_Witness ==
    /\ last.op = "void"
    /\ last.code = 200
    /\ last.id \in DOMAIN journal_entries
    /\ IsVoid(journal_entries[last.id])
    /\ journal_entries[last.id].lines # <<>>
    /\ transactions # <<>>
    /\ \A t \in DOMAIN transactions : ~IsVoid(transactions[t])

=============================================================================
